---- MODULE Spec2Model ----
(***************************************************************************)
(* payment-service (services/payment-service/src/main.rs): an actix-web    *)
(* server with four routes (/health, /metrics, POST /payments,             *)
(* GET /payments) over an in-memory Vec<Payment> behind a tokio Mutex and  *)
(* a prometheus Counter.  Every request is one process; its handler is     *)
(* split in steps at each access to shared state (counter, clock, lock,    *)
(* store) so that all interleavings of concurrent handlers are explored.   *)
(***************************************************************************)
EXTENDS Integers, Sequences, FiniteSets, TLC

\* ---------------------------------------------------------------- bounds
NReq == 3        \* number of requests the server receives

Reqs == 1..NReq

\* ------------------------------------------------------- Option<T> values
None == <<>>
Some(x) == <<x>>
IsSome(o) == o # None
Unwrap(o) == o[1]

\* --------------------------------------------------------- request inputs
\* A header value is a sequence of chunks; the first chunk stands for the
\* first seven bytes of the value, the second for the rest of it.
\* NotAscii is a value that is not visible ASCII (to_str() fails on it).
NotAscii == <<"\\xff">>
Basic == <<"Basic ", "tokA">>
Garbage == <<"Bearer ", "garbage">>
BearerA == <<"Bearer ", "tokA">>
BearerB == <<"Bearer ", "tokB">>

\* Tokens that decode into Claims, with the sub they carry.
OwnerA == 7
OwnerB == 9
TokenSub == [tokA |-> OwnerA, tokB |-> OwnerB]

\* Request bodies of POST /payments.  Amounts are f64 values, written here
\* in hundredths (1999 is 19.99); BadBody is a body that does not
\* deserialize into PaymentRequest.
BadBody == [malformed |-> TRUE]
Pay42 == [malformed |-> FALSE, order_id |-> 42, amount |-> 1999, currency |-> None]
PayEur == [malformed |-> FALSE, order_id |-> 1, amount |-> 1, currency |-> Some("EUR")]
PayNeg == [malformed |-> FALSE, order_id |-> 1, amount |-> -500, currency |-> None]
PayZero == [malformed |-> FALSE, order_id |-> 42, amount |-> 0, currency |-> Some("EUR")]

NoBody == [malformed |-> FALSE, order_id |-> 0, amount |-> 0, currency |-> None]
NoReq == [kind |-> "none", header |-> None, body |-> NoBody]
Post(h, b) == [kind |-> "create", header |-> h, body |-> b]
Get(h) == [kind |-> "list", header |-> h, body |-> NoBody]

\* The requests clients send.
Requests ==
    { Post(Some(BearerA), Pay42), Post(Some(BearerB), PayEur),
      Post(Some(BearerA), PayNeg), Post(Some(BearerB), PayZero),
      Post(None, Pay42), Post(Some(Garbage), PayNeg), Post(None, BadBody),
      Get(Some(BearerA)), Get(Some(NotAscii)), Get(Some(Basic)),
      [kind |-> "health", header |-> None, body |-> NoBody],
      [kind |-> "metrics", header |-> None, body |-> NoBody] }

\* ------------------------------------------------------------------ state
VARIABLES
    req,            \* req[r]: the request in slot r (NoReq before it arrives)
    pc,             \* pc[r]: where request r's handler stands
    counter,        \* payment_counter (payment_service_payments_total)
    store,          \* the Vec<Payment> inside the Mutex
    holder,         \* the request that owns the Mutex's permit (0: free)
    waiters,        \* the Mutex's FIFO queue of waiting requests
    user_id,        \* user_id[r]: the handler's local user_id
    payment,        \* payment[r]: create_payment's local payment
    scan_pos,       \* scan_pos[r]: next index store.iter() yields
    user_payments,  \* user_payments[r]: list_payments' local user_payments
    resp,           \* resp[r]: the response the handler returned
    now,            \* the wall clock: the last reading create_payment took
    done_before     \* history: creations answered 201 before list request r arrived

vars == <<req, pc, counter, store, holder, waiters, user_id, payment,
          scan_pos, user_payments, resp, now, done_before>>

NoPayment == [id |-> 0, order_id |-> 0, user_id |-> 0, amount |-> 0,
              currency |-> "", status |-> "", created_at |-> 0]
NoResp == [status |-> 0, body |-> [none |-> TRUE]]

Init ==
    /\ req = [r \in Reqs |-> NoReq]
    /\ pc = [r \in Reqs |-> "idle"]
    /\ counter = 0
    /\ store = <<>>
    /\ holder = 0
    /\ waiters = <<>>
    /\ user_id = [r \in Reqs |-> 0]
    /\ payment = [r \in Reqs |-> NoPayment]
    /\ scan_pos = [r \in Reqs |-> 0]
    /\ user_payments = [r \in Reqs |-> <<>>]
    /\ resp = [r \in Reqs |-> NoResp]
    /\ now = 0
    /\ done_before = [r \in Reqs |-> {}]

\* ---------------------------------------------------------- pure functions
Ok(v) == [ok |-> TRUE, val |-> v, err |-> ""]
Err(e) == [ok |-> FALSE, val |-> 0, err |-> e]

\* decode::<Claims>(token, ..) with signature validation disabled
decode(token) ==
    IF token \in DOMAIN TokenSub THEN Ok(TokenSub[token]) ELSE Err("Invalid token")

\* v.to_str().ok()
to_str(v) == IF v = NotAscii THEN None ELSE Some(v)

\* the scheme is not looked at
starts_with_Anything(auth) == Len(auth) >= 1

\* auth.starts_with("Bearer ")
starts_with_Bearer(auth) == Len(auth) >= 1 /\ auth[1] = "Bearer "

\* fn extract_user_id(req) -> Result<i64, String>
extract_user_id(header) ==
    LET auth == IF IsSome(header) THEN to_str(Unwrap(header)) ELSE None
    IN  IF ~IsSome(auth) THEN Err("Missing Authorization header")
        ELSE IF ~starts_with_Bearer(Unwrap(auth))
             THEN Err("Malformed Authorization header")
             ELSE decode(Unwrap(auth)[2])

\* payload.amount < 0.0
AmountRejectedStrict(amount) == amount < 0

\* payload.amount <= 0.0
AmountRejected(amount) == amount <= 0

\* the requested currency is dropped
CurrencyIgnored(body) == "USD"

\* payload.currency.clone().unwrap_or_else(|| "USD".to_string())
CurrencyOf(body) == IF IsSome(body.currency) THEN Unwrap(body.currency) ELSE "USD"

\* the Payment { .. } literal of create_payment; the fresh Uuid is the
\* number of the request that draws it
NewPayment(r, body, uid, t) ==
    [id |-> r, order_id |-> body.order_id, user_id |-> uid, amount |-> body.amount,
     currency |-> CurrencyOf(body), status |-> "completed", created_at |-> t]

\* a filter that keeps every record
MatchesAnyOwner(p, uid) == TRUE

\* the closure |p| p.user_id == user_id
Matches(p, uid) == p.user_id = uid

\* HttpResponse::Unauthorized().json(json!({"error": e})) and the like; a
\* JSON array body is the record [array |-> its elements]
Unauthorized(e) == [status |-> 401, body |-> [error |-> e]]
BadRequest(e) == [status |-> 400, body |-> [error |-> e]]
Created(p) == [status |-> 201, body |-> p]
OkJson(b) == [status |-> 200, body |-> b]
OkArray(a) == [status |-> 200, body |-> [array |-> a]]
OkText(families) == [status |-> 200, body |-> families]

\* ------------------------------------------------------------ tokio Mutex
\* lock(): the permit is taken when it is free and nobody queues for it,
\* otherwise the caller joins the queue.
MutexLock(r, locked, parked) ==
    IF holder = 0 /\ waiters = <<>>
    THEN /\ holder' = r
         /\ waiters' = waiters
         /\ pc' = [pc EXCEPT ![r] = locked]
    ELSE /\ holder' = holder
         /\ waiters' = Append(waiters, r)
         /\ pc' = [pc EXCEPT ![r] = parked]

\* a parked lock().await resumes once the permit was handed to its task
MutexWake(r, parked, locked) ==
    /\ pc[r] = parked
    /\ holder = r
    /\ pc' = [pc EXCEPT ![r] = locked]

\* dropping the MutexGuard: the permit goes to the head of the queue.
MutexUnlock(r) ==
    IF waiters = <<>>
    THEN /\ holder' = 0
         /\ waiters' = waiters
    ELSE /\ holder' = Head(waiters)
         /\ waiters' = Tail(waiters)

Locals == <<user_id, payment, scan_pos, user_payments>>

\* --------------------------------------------------------------- routing
\* Request r reaches the server: slots are taken in arrival order, and the
\* route table hands the request to its handler, whose first step runs.
Arrives(r) ==
    /\ pc[r] = "idle"
    /\ \A p \in 1..(r - 1) : pc[p] # "idle"

\* POST /payments extracts web::Json<PaymentRequest> before create_payment
\* is called: a body that does not deserialize is answered 400 by the
\* extractor and the handler never runs.
RejectBody(r) ==
    /\ Arrives(r)
    /\ \E q \in Requests :
        /\ q.kind = "create" /\ q.body.malformed
        /\ req' = [req EXCEPT ![r] = q]
    /\ resp' = [resp EXCEPT ![r] = BadRequest("Json deserialize error")]
    /\ pc' = [pc EXCEPT ![r] = "done"]
    /\ UNCHANGED <<counter, store, holder, waiters, Locals, now, done_before>>

\* ------------------------------------------------------------ GET /health
Health(r) ==
    /\ Arrives(r)
    /\ \E q \in Requests :
        /\ q.kind = "health"
        /\ req' = [req EXCEPT ![r] = q]
    /\ resp' = [resp EXCEPT ![r] =
            OkJson([status |-> "ok", service |-> "payment-service", timestamp |-> now])]
    /\ pc' = [pc EXCEPT ![r] = "done"]
    /\ UNCHANGED <<counter, store, holder, waiters, Locals, now, done_before>>

\* ----------------------------------------------------------- GET /metrics
Metrics(r) ==
    /\ Arrives(r)
    /\ \E q \in Requests :
        /\ q.kind = "metrics"
        /\ req' = [req EXCEPT ![r] = q]
    /\ resp' = [resp EXCEPT ![r] = OkText([payment_service_payments_total |-> counter])]
    /\ pc' = [pc EXCEPT ![r] = "done"]
    /\ UNCHANGED <<counter, store, holder, waiters, Locals, now, done_before>>

\* --------------------------------------------------------- POST /payments
\* create_payment without its counter.inc()
CreateIncForgotten(r) ==
    /\ Arrives(r)
    /\ \E q \in Requests :
        /\ q.kind = "create" /\ ~q.body.malformed
        /\ req' = [req EXCEPT ![r] = q]
    /\ pc' = [pc EXCEPT ![r] = "create_auth"]
    /\ UNCHANGED <<counter, store, holder, waiters, Locals, resp, now, done_before>>

\* counter.inc();
CreateInc(r) ==
    /\ Arrives(r)
    /\ \E q \in Requests :
        /\ q.kind = "create" /\ ~q.body.malformed
        /\ req' = [req EXCEPT ![r] = q]
    /\ counter' = counter + 1
    /\ pc' = [pc EXCEPT ![r] = "create_auth"]
    /\ UNCHANGED <<store, holder, waiters, Locals, resp, now, done_before>>

\* let user_id = match extract_user_id(&req) { Ok(id) => id, Err(e) => return 401 };
CreateAuth(r) ==
    /\ pc[r] = "create_auth"
    /\ LET res == extract_user_id(req[r].header)
       IN  IF res.ok
           THEN /\ user_id' = [user_id EXCEPT ![r] = res.val]
                /\ pc' = [pc EXCEPT ![r] = "create_validate"]
                /\ resp' = resp
           ELSE /\ user_id' = user_id
                /\ pc' = [pc EXCEPT ![r] = "done"]
                /\ resp' = [resp EXCEPT ![r] = Unauthorized(res.err)]
    /\ UNCHANGED <<req, counter, store, holder, waiters, payment, scan_pos,
                   user_payments, now, done_before>>

\* if payload.amount <= 0.0 { return 400 }
CreateValidate(r) ==
    /\ pc[r] = "create_validate"
    /\ IF AmountRejected(req[r].body.amount)
       THEN /\ pc' = [pc EXCEPT ![r] = "done"]
            /\ resp' = [resp EXCEPT ![r] = BadRequest("Amount must be positive")]
       ELSE /\ pc' = [pc EXCEPT ![r] = "create_build"]
            /\ resp' = resp
    /\ UNCHANGED <<req, counter, store, holder, waiters, Locals, now, done_before>>

\* let payment = Payment { id: Uuid::new_v4(), .., created_at: Utc::now() };
\* the clock has advanced since the payment before this one was built
CreateBuild(r) ==
    /\ pc[r] = "create_build"
    /\ now' = now + 1
    /\ payment' = [payment EXCEPT ![r] = NewPayment(r, req[r].body, user_id[r], now')]
    /\ pc' = [pc EXCEPT ![r] = "create_lock"]
    /\ UNCHANGED <<req, counter, store, holder, waiters, user_id, scan_pos,
                   user_payments, resp, done_before>>

\* let mut store = store.lock().await;
CreateLock(r) ==
    /\ pc[r] = "create_lock"
    /\ MutexLock(r, "create_push", "create_wait")
    /\ UNCHANGED <<req, counter, store, Locals, resp, now, done_before>>

CreateWake(r) ==
    /\ MutexWake(r, "create_wait", "create_push")
    /\ UNCHANGED <<req, counter, store, holder, waiters, Locals, resp, now, done_before>>

\* store.insert(0, payment.clone());
CreatePushFront(r) ==
    /\ pc[r] = "create_push"
    /\ store' = <<payment[r]>> \o store
    /\ pc' = [pc EXCEPT ![r] = "create_return"]
    /\ UNCHANGED <<req, counter, holder, waiters, Locals, resp, now, done_before>>

\* the push goes to a copy of the vector
CreatePushLost(r) ==
    /\ pc[r] = "create_push"
    /\ pc' = [pc EXCEPT ![r] = "create_return"]
    /\ UNCHANGED <<req, counter, store, holder, waiters, Locals, resp, now, done_before>>

\* store.push(payment.clone());
CreatePush(r) ==
    /\ pc[r] = "create_push"
    /\ store' = Append(store, payment[r])
    /\ pc' = [pc EXCEPT ![r] = "create_return"]
    /\ UNCHANGED <<req, counter, holder, waiters, Locals, resp, now, done_before>>

\* the guard outlives the handler
CreateReturnKeepsGuard(r) ==
    /\ pc[r] = "create_return"
    /\ resp' = [resp EXCEPT ![r] = Created(payment[r])]
    /\ pc' = [pc EXCEPT ![r] = "done"]
    /\ UNCHANGED <<req, counter, store, holder, waiters, Locals, now, done_before>>

\* HttpResponse::Created().json(payment) and the guard is dropped
CreateReturn(r) ==
    /\ pc[r] = "create_return"
    /\ resp' = [resp EXCEPT ![r] = Created(payment[r])]
    /\ MutexUnlock(r)
    /\ pc' = [pc EXCEPT ![r] = "done"]
    /\ UNCHANGED <<req, counter, store, Locals, now, done_before>>

\* ---------------------------------------------------------- GET /payments
\* let user_id = match extract_user_id(&req) { Ok(id) => id, Err(e) => return 401 };
ListAuth(r) ==
    /\ Arrives(r)
    /\ \E q \in Requests :
        /\ q.kind = "list"
        /\ req' = [req EXCEPT ![r] = q]
        /\ LET res == extract_user_id(q.header)
           IN  IF res.ok
               THEN /\ user_id' = [user_id EXCEPT ![r] = res.val]
                    /\ pc' = [pc EXCEPT ![r] = "list_lock"]
                    /\ resp' = resp
               ELSE /\ user_id' = user_id
                    /\ pc' = [pc EXCEPT ![r] = "done"]
                    /\ resp' = [resp EXCEPT ![r] = Unauthorized(res.err)]
    /\ done_before' = [done_before EXCEPT ![r] =
            {c \in Reqs : pc[c] = "done" /\ resp[c].status = 201}]
    /\ UNCHANGED <<counter, store, holder, waiters, payment, scan_pos,
                   user_payments, now>>

\* the scan starts without the lock
ListLockSkipped(r) ==
    /\ pc[r] = "list_lock"
    /\ scan_pos' = [scan_pos EXCEPT ![r] = 1]
    /\ pc' = [pc EXCEPT ![r] = "list_scan"]
    /\ UNCHANGED <<req, counter, store, holder, waiters, user_id, payment, user_payments,
                   resp, now, done_before>>

\* let store = store.lock().await;
ListLock(r) ==
    /\ pc[r] = "list_lock"
    /\ MutexLock(r, "list_scan", "list_wait")
    /\ scan_pos' = [scan_pos EXCEPT ![r] = 1]
    /\ UNCHANGED <<req, counter, store, user_id, payment, user_payments, resp, now,
                   done_before>>

ListWake(r) ==
    /\ MutexWake(r, "list_wait", "list_scan")
    /\ UNCHANGED <<req, counter, store, holder, waiters, Locals, resp, now, done_before>>

\* store.iter().filter(..).collect() takes one element
ListScan(r) ==
    /\ pc[r] = "list_scan"
    /\ scan_pos[r] <= Len(store)
    /\ user_payments' = [user_payments EXCEPT ![r] =
            IF Matches(store[scan_pos[r]], user_id[r])
            THEN Append(@, store[scan_pos[r]])
            ELSE @]
    /\ scan_pos' = [scan_pos EXCEPT ![r] = @ + 1]
    /\ UNCHANGED <<req, pc, counter, store, holder, waiters, user_id, payment, resp,
                   now, done_before>>

\* the iterator is exhausted: HttpResponse::Ok().json(user_payments) and the
\* guard is dropped
ListReturn(r) ==
    /\ pc[r] = "list_scan"
    /\ scan_pos[r] > Len(store)
    /\ resp' = [resp EXCEPT ![r] = OkArray(user_payments[r])]
    /\ MutexUnlock(r)
    /\ pc' = [pc EXCEPT ![r] = "done"]
    /\ UNCHANGED <<req, counter, store, Locals, now, done_before>>

\* ------------------------------------------------------------ the server
Step(r) ==
    \/ CreateAuth(r)
    \/ CreateValidate(r)
    \/ CreateBuild(r)
    \/ CreateLock(r)
    \/ CreateWake(r)
    \/ CreatePush(r)
    \/ CreateReturn(r)
    \/ ListLock(r)
    \/ ListWake(r)
    \/ ListScan(r)
    \/ ListReturn(r)

\* the first step of the handler of a request that arrives
Start(r) ==
    \/ RejectBody(r)
    \/ Health(r)
    \/ Metrics(r)
    \/ CreateInc(r)
    \/ ListAuth(r)

Next ==
    \/ \E r \in Reqs : Start(r)
    \/ \E r \in Reqs : Step(r)

Spec == Init /\ [][Next]_vars

\* Every handler that can take a step eventually takes one (the runtime
\* polls every ready task); arrivals are up to the clients.
FairSpec == Spec /\ \A r \in Reqs : WF_vars(Step(r))

\* =================================================================== claims
\* The vocabulary of the claims, stated on requests and responses.
Range(s) == { s[i] : i \in 1..Len(s) }
IsPrefix(s, t) == Len(s) <= Len(t) /\ SubSeq(t, 1, Len(s)) = s
OwnedBy(s, u) == SelectSeq(s, LAMBDA p : p.user_id = u)
StoredBy(r) == { i \in 1..Len(store) : store[i].id = r }

\* The header carries a Bearer token that decodes into claims.
CredentialOk(h) ==
    /\ h # None
    /\ Unwrap(h) # NotAscii
    /\ Len(Unwrap(h)) = 2
    /\ Unwrap(h)[1] = "Bearer "
    /\ Unwrap(h)[2] \in DOMAIN TokenSub
SubjectOf(h) == TokenSub[Unwrap(h)[2]]

IsPost(r) == req[r].kind = "create"
IsGet(r) == req[r].kind = "list"
WellFormedPost(r) == IsPost(r) /\ ~req[r].body.malformed
AuthenticatedPost(r) == WellFormedPost(r) /\ CredentialOk(req[r].header)
Answered(r, status) == pc[r] = "done" /\ resp[r].status = status
NeverLocks(r) == holder # r /\ r \notin Range(waiters)
HasGuard(r) == pc[r] \in {"create_push", "create_return", "list_scan"}

\* the creations answered 201 to owner u
SuccessfulCreates(u) ==
    { c \in Reqs : IsPost(c) /\ Answered(c, 201) /\ SubjectOf(req[c].header) = u }

\* ------------------------------------------------------------------- C1
\* C1: when list-payments answers owner A, the body holds exactly as many
\* records as create-payment requests of A were answered 201, every one of
\* them with user_id = A (so none of another owner B).
Thm_C1_OwnerIsolation ==
    [][\A r \in Reqs :
        (pc[r] = "list_scan" /\ pc'[r] = "done") =>
            LET A == SubjectOf(req[r].header)
                out == resp'[r].body.array
            IN  /\ resp'[r].status = 200
                /\ Len(out) = Cardinality(SuccessfulCreates(A))
                /\ \A i \in 1..Len(out) : out[i].user_id = A]_vars

Wit_C1_ListAmongTwoOwners ==
    \E r \in Reqs :
        /\ IsGet(r) /\ Answered(r, 200)
        /\ Len(resp[r].body.array) = 1
        /\ Len(store) = 2
        /\ store[1].user_id # user_id[r]
        /\ store[2].user_id = user_id[r]

\* ------------------------------------------------------------------- C2
\* C2: list-payments returns the caller's records in creation order: a
\* record whose creation timestamp was captured earlier precedes, in every
\* list result, one of the same owner captured later.
Cex_C2_ListInCreationOrder ==
    \A r \in Reqs :
        (IsGet(r) /\ Answered(r, 200)) =>
            \A i, j \in 1..Len(resp[r].body.array) :
                i < j => resp[r].body.array[i].created_at < resp[r].body.array[j].created_at

\* ------------------------------------------------------------------- C3
\* C3: an authenticated create-payment request with amount <= 0 is answered
\* 400 "Amount must be positive"; it never asks for the store lock, never
\* holds it, and no record of it is ever in the store.
Thm_C3_NonPositiveRejected ==
    \A r \in Reqs :
        (AuthenticatedPost(r) /\ req[r].body.amount <= 0) =>
            /\ NeverLocks(r)
            /\ pc[r] \in {"create_auth", "create_validate", "done"}
            /\ StoredBy(r) = {}
            /\ pc[r] = "done" => resp[r] = [status |-> 400, body |-> [error |-> "Amount must be positive"]]

Wit_C3_ZeroRejected ==
    \E r, c \in Reqs :
        /\ AuthenticatedPost(r) /\ req[r].body.amount = 0 /\ Answered(r, 400)
        /\ Answered(c, 201) /\ c < r
        /\ Len(store) = 1

\* ------------------------------------------------------------------- C4
\* C4 as stated: every create-payment or list-payments request whose
\* credentials fail is answered 401, whatever its body.
Cex_C4_Always401 ==
    \A r \in Reqs :
        ((IsPost(r) \/ IsGet(r)) /\ ~CredentialOk(req[r].header) /\ pc[r] = "done")
            => resp[r].status = 401

\* C4 amended: a request whose credentials fail never asks for the store
\* lock, never reads or changes the store, and is answered 401 -- except a
\* create-payment request whose body does not deserialize, which the JSON
\* extractor answers 400 before the handler looks at the credentials.
Thm_C4_RejectedBeforeStore ==
    \A r \in Reqs :
        ((IsPost(r) \/ IsGet(r)) /\ ~CredentialOk(req[r].header)) =>
            /\ NeverLocks(r)
            /\ pc[r] \in {"create_auth", "done"}
            /\ StoredBy(r) = {}
            /\ scan_pos[r] = 0 /\ user_payments[r] = <<>>
            /\ pc[r] = "done" =>
                resp[r].status = IF IsPost(r) /\ req[r].body.malformed THEN 400 ELSE 401

Wit_C4_BothEndpoints401 ==
    \E r, g \in Reqs :
        /\ WellFormedPost(r) /\ ~CredentialOk(req[r].header) /\ Answered(r, 401)
        /\ IsGet(g) /\ ~CredentialOk(req[g].header) /\ Answered(g, 401)
        /\ Len(store) = 1

\* ------------------------------------------------------------------- C5
\* C5 as stated: the counter equals the number of create-payment requests
\* received, whatever their outcome.
Cex_C5_CountsEveryRequest ==
    counter = Cardinality({ r \in Reqs : IsPost(r) })

\* C5 amended: the counter starts at 0, never decreases, is changed by no
\* endpoint other than create-payment, and equals the number of
\* create-payment requests whose body deserialized (whose handler ran),
\* whatever their outcome: 201, 401 or 400 for the amount.
Thm_C5_CountsHandlerRuns ==
    /\ counter = 0
    /\ [][/\ counter' = Cardinality({ r \in Reqs : req'[r].kind = "create"
                                         /\ ~req'[r].body.malformed })
          /\ counter' >= counter
          /\ counter' # counter =>
                \E r \in Reqs : /\ pc[r] = "idle"
                                /\ req'[r].kind = "create"
                                /\ counter' = counter + 1]_vars

Wit_C5_ThreeOutcomes ==
    /\ counter = 3
    /\ \E a, b, c \in Reqs :
        /\ IsPost(a) /\ Answered(a, 201)
        /\ IsPost(b) /\ Answered(b, 401)
        /\ IsPost(c) /\ Answered(c, 400)

\* ------------------------------------------------------------------- C6
\* C6: every step leaves the old store a prefix of the new one and adds at
\* most one record; the store grows only by the push of a create-payment
\* request, and a finished request has one record in the store when it was
\* answered 201 and none otherwise.
Thm_C6_AppendOnly ==
    [][/\ IsPrefix(store, store')
       /\ Len(store') <= Len(store) + 1
       /\ store' # store =>
            \E r \in Reqs : /\ IsPost(r)
                            /\ pc[r] = "create_push"
                            /\ store' = Append(store, payment[r])
       /\ \A r \in Reqs :
            pc'[r] = "done" =>
                Cardinality({ i \in 1..Len(store') : store'[i].id = r })
                    = IF resp'[r].status = 201 THEN 1 ELSE 0]_vars

Wit_C6_StoreScannedAndGrown ==
    /\ Len(store) = 2
    /\ \E r \in Reqs : IsGet(r) /\ Answered(r, 200) /\ Len(resp[r].body.array) = 1
    /\ store[1].user_id = store[2].user_id

\* ------------------------------------------------------------------- C7
\* C7: at most one request is past its lock().await and before the drop of
\* its guard, and it is the owner of the permit; while a list-payments scan
\* is under way no step changes the store, and the scan's result is the
\* owner's records of that store, each of them whole.
Thm_C7_MutualExclusion ==
    [][/\ Cardinality({ r \in Reqs : HasGuard(r)' }) <= 1
       /\ \A r \in Reqs : HasGuard(r)' => holder' = r
       /\ \A r \in Reqs : pc[r] = "list_scan" => store' = store
       /\ \A r \in Reqs :
            (pc[r] = "list_scan" /\ pc'[r] = "done") =>
                resp'[r].body.array = OwnedBy(store, user_id[r])]_vars

Wit_C7_AppendWaitsForScan ==
    \E r, c \in Reqs :
        /\ pc[r] = "list_scan" /\ scan_pos[r] = 2 /\ Len(store) >= 1
        /\ pc[c] = "create_wait"

\* ------------------------------------------------------------------- C8
\* C8: a request that returned neither holds the permit nor queues for it;
\* every request parked on the lock gets the guard, and every request that
\* arrived is answered.
Thm_C8_LockReleasedAndProgress ==
    /\ [][\A r \in Reqs : pc'[r] = "done" => (holder' # r /\ r \notin Range(waiters'))]_vars
    /\ \A r \in Reqs : (pc[r] \in {"create_wait", "list_wait"}) ~> HasGuard(r)
    /\ \A r \in Reqs : (pc[r] # "idle") ~> (pc[r] = "done" /\ resp[r].status # 0)

Wit_C8_TwoParked ==
    /\ Len(waiters) = 2
    /\ holder \in Reqs
    /\ pc[holder] = "create_return"

\* ------------------------------------------------------------------- C9
\* C9: an authenticated create-payment request with amount > 0 is answered
\* 201 with a record that carries the requested amount and order_id, the
\* subject of the caller's claim, the requested currency or "USD" when none
\* was given, and status "completed"; the record in the store is that record.
Thm_C9_CreatedRecord ==
    \A r \in Reqs :
        (AuthenticatedPost(r) /\ req[r].body.amount > 0 /\ pc[r] = "done") =>
            /\ resp[r].status = 201
            /\ resp[r].body.amount = req[r].body.amount
            /\ resp[r].body.order_id = req[r].body.order_id
            /\ resp[r].body.user_id = SubjectOf(req[r].header)
            /\ resp[r].body.currency =
                    IF req[r].body.currency = None THEN "USD" ELSE req[r].body.currency[1]
            /\ resp[r].body.status = "completed"
            /\ \E i \in 1..Len(store) : store[i] = resp[r].body
            /\ Cardinality(StoredBy(r)) = 1

Wit_C9_DefaultAndGivenCurrency ==
    \E r, c \in Reqs :
        /\ IsPost(r) /\ Answered(r, 201) /\ resp[r].body.currency = "USD"
        /\ resp[r].body.amount = 1999
        /\ IsPost(c) /\ Answered(c, 201) /\ resp[c].body.currency = "EUR"

\* ------------------------------------------------------------------ C10
\* C10: a creation answered 201 has its record in the store, and a
\* list-payments request that arrived after that answer returns the record
\* when it is answered to the same owner.
Thm_C10_ReadYourWrites ==
    /\ \A c \in Reqs :
        (IsPost(c) /\ Answered(c, 201)) => resp[c].body \in Range(store)
    /\ \A r \in Reqs :
        (IsGet(r) /\ Answered(r, 200)) =>
            \A c \in done_before[r] :
                SubjectOf(req[c].header) = SubjectOf(req[r].header)
                    => resp[c].body \in Range(resp[r].body.array)

Wit_C10_ListAfterCreate ==
    \E r \in Reqs :
        /\ IsGet(r) /\ Answered(r, 200)
        /\ \E c \in done_before[r] : resp[c].body \in Range(resp[r].body.array)
        /\ \E d \in Reqs \ done_before[r] : IsPost(d) /\ Answered(d, 201)

====
